---- MODULE Spec2Model ----
(***************************************************************************)
(* The backtesting engine of src/backtest.py (class BackTester): the       *)
(* bar-by-bar fold that turns a signal-labelled price series into trades,  *)
(* a balance and the final metrics.                                        *)
(*                                                                         *)
(* Numbers.  The engine computes stake_amount / close, amount * close and  *)
(* the sums of these in Python floats.  The model computes the same        *)
(* expressions over exact rationals [n, d] in lowest terms (d > 0): the    *)
(* rounding of binary floating point is not modelled.                      *)
(***************************************************************************)
EXTENDS Integers, Sequences, FiniteSets

VARIABLES
    self,             \* the BackTester object: its fields set in __init__
    pc,               \* position in backtest(): "for", "sweep", "metrics", "done", "ZeroDivisionError"
    row,              \* the row of the current iteration of the for loop
    index,            \* number of rows the iterator has yielded
    metrics,          \* the dict _calculate_metrics returned, NoMetrics before
    data_frame,       \* the argument of backtest(): its rows, or streamed (drawn as the loop goes)
    initial_balance,  \* history: the starting_balance given to __init__
    breakeven_exits,  \* history: closes at position_value = stake_amount
    entered           \* history: the signal step of the current row appended a trade

vars == <<self, pc, row, index, metrics, data_frame, initial_balance,
          breakeven_exits, entered>>

-----------------------------------------------------------------------------
(* Bounds and inputs *)

MaxBars == 5

MaxFrame == 2

Prices == {9, 10, 11, 12}

Signals == {"enter_long", "exit_long", "none"}

StartingBalances == {0, 100, 250}

-----------------------------------------------------------------------------
(* Exact rational arithmetic *)

Abs(a) == IF a < 0 THEN -a ELSE a

RECURSIVE GCD(_, _)
GCD(a, b) == IF b = 0 THEN a ELSE GCD(b, a % b)

Norm(n, d) ==
    LET g == GCD(Abs(n), d)
    IN  [n |-> IF n < 0 THEN -(Abs(n) \div g) ELSE n \div g, d |-> d \div g]

Rat(i) == [n |-> i, d |-> 1]

Add(x, y) == Norm(x.n * y.d + y.n * x.d, x.d * y.d)

Sub(x, y) == Norm(x.n * y.d - y.n * x.d, x.d * y.d)

Mul(x, y) == Norm(x.n * y.n, x.d * y.d)

\* x / y for y > 0
Div(x, y) == Norm(x.n * y.d, x.d * y.n)

Lt(x, y) == x.n * y.d < y.n * x.d

Ge(x, y) == ~Lt(x, y)

Gt(x, y) == Lt(y, x)

RECURSIVE Sum(_)
Sum(s) == IF s = <<>> THEN Rat(0) ELSE Add(Head(s), Sum(Tail(s)))

-----------------------------------------------------------------------------
(* The strategy's parameters and the input rows *)

Strategies ==
    { [stake_amount |-> Rat(100), stop_loss |-> Norm(1, 10), take_profit |-> Norm(1, 5)],
      [stake_amount |-> Rat(100), stop_loss |-> Norm(1, 50), take_profit |-> Norm(1, 20)] }

Rows == [close : {Rat(p) : p \in Prices}, signal : Signals]

\* a data frame whose rows are drawn one by one, up to MaxBars of them
Streamed == [streamed |-> TRUE, rows |-> <<>>]

\* the data frames given whole, of up to MaxFrame rows
Frames ==
    { [streamed |-> FALSE, rows |-> f] :
        f \in UNION { [1..n -> Rows] : n \in 0..MaxFrame } }

None == [none |-> TRUE]

NoMetrics == [none |-> TRUE]

\* BackTester.__init__
init(strategy, starting_balance) ==
    [ balance      |-> Rat(starting_balance),
      stake_amount |-> strategy.stake_amount,
      stop_loss    |-> strategy.stop_loss,
      take_profit  |-> strategy.take_profit,
      trades       |-> <<>>,
      last_action  |-> "None",
      wins         |-> <<>>,
      losses       |-> <<>>,
      sl_hits      |-> 0,
      tp_hits      |-> 0,
      force_exits  |-> 0,
      total_trades |-> 0,
      last_row     |-> None ]

-----------------------------------------------------------------------------
(* _enter_long *)

\* mutant: the balance is tested against zero, not against the stake
has_stake_nonnegative(obj) == Ge(obj.balance, Rat(0))

\* mutant: a skipped entry is still recorded as the last action
enter_long_records_attempt(obj, r) ==
    IF Ge(obj.balance, obj.stake_amount)
    THEN LET current_price == r.close
             amount_to_buy == Div(obj.stake_amount, current_price)
         IN  [obj EXCEPT
                 !.trades = Append(@, [price |-> current_price,
                                       amount |-> amount_to_buy,
                                       exited |-> FALSE]),
                 !.balance = Sub(@, obj.stake_amount),
                 !.total_trades = @ + 1,
                 !.last_action = "enter_long"]
    ELSE [obj EXCEPT !.last_action = "enter_long"]

has_stake(obj) == Ge(obj.balance, obj.stake_amount)

enter_long(obj, r) ==
    IF has_stake(obj)
    THEN LET current_price == r.close
             amount_to_buy == Div(obj.stake_amount, current_price)
         IN  [obj EXCEPT
                 !.trades = Append(@, [price |-> current_price,
                                       amount |-> amount_to_buy,
                                       exited |-> FALSE]),
                 !.balance = Sub(@, obj.stake_amount),
                 !.total_trades = @ + 1,
                 !.last_action = "enter_long"]
    ELSE obj

-----------------------------------------------------------------------------
(* _exit_trade; the trade is named by its place i in obj.trades *)

position_value(trade, current_row) == Mul(trade.amount, current_row.close)

\* mutant: the guard on an exited trade is lost
never_exited(trade) == FALSE

already_exited(trade) == trade.exited

\* mutant: the stop-loss comparison is strict
sl_hit_strict(obj, pv) ==
    LET loss == Sub(obj.stake_amount, pv)
        pct_loss == Div(loss, obj.stake_amount)
    IN  Gt(pct_loss, obj.stop_loss)

\* pct_loss >= self.stop_loss
sl_hit(obj, pv) ==
    LET loss == Sub(obj.stake_amount, pv)
        pct_loss == Div(loss, obj.stake_amount)
    IN  Ge(pct_loss, obj.stop_loss)

\* mutant: the take-profit comparison is strict
tp_hit_strict(obj, pv) ==
    LET gain == Sub(pv, obj.stake_amount)
        pct_gain == Div(gain, obj.stake_amount)
    IN  Gt(pct_gain, obj.take_profit)

\* pct_gain >= self.take_profit
tp_hit(obj, pv) ==
    LET gain == Sub(pv, obj.stake_amount)
        pct_gain == Div(gain, obj.stake_amount)
    IN  Ge(pct_gain, obj.take_profit)

\* mutant: a forced exit at a loss is counted as a stop-loss hit
forced_loss_as_sl_hit(obj, pv) ==
    [obj EXCEPT !.sl_hits = @ + 1,
                !.losses = Append(@, Sub(obj.stake_amount, pv))]

forced_loss(obj, pv) ==
    [obj EXCEPT !.force_exits = @ + 1,
                !.losses = Append(@, Sub(obj.stake_amount, pv))]

\* mutant: a stop-loss hit is counted as a forced exit too
stop_loss_exit_also_forced(obj, pv) ==
    [obj EXCEPT !.sl_hits = @ + 1,
                !.force_exits = @ + 1,
                !.losses = Append(@, Sub(obj.stake_amount, pv))]

stop_loss_exit(obj, pv) ==
    [obj EXCEPT !.sl_hits = @ + 1,
                !.losses = Append(@, Sub(obj.stake_amount, pv))]

\* mutant: a forced exit at a gain is counted as a take-profit hit
forced_win_as_tp_hit(obj, pv) ==
    [obj EXCEPT !.tp_hits = @ + 1,
                !.wins = Append(@, Sub(pv, obj.stake_amount))]

forced_win(obj, pv) ==
    [obj EXCEPT !.force_exits = @ + 1,
                !.wins = Append(@, Sub(pv, obj.stake_amount))]

take_profit_exit(obj, pv) ==
    [obj EXCEPT !.tp_hits = @ + 1,
                !.wins = Append(@, Sub(pv, obj.stake_amount))]

\* mutant: a forced exit at break-even records a win of zero
forced_breakeven_as_win(obj) ==
    [obj EXCEPT !.force_exits = @ + 1, !.wins = Append(@, Rat(0))]

forced_breakeven(obj) == [obj EXCEPT !.force_exits = @ + 1]

\* mutant: a close does not record itself as the last action
close_trade_keeps_action(obj, i, pv) ==
    [obj EXCEPT !.balance = Add(@, pv),
                !.trades[i].exited = TRUE]

\* mutant: a close gives the stake back, not the position's value
close_trade_refunds_stake(obj, i, pv) ==
    [obj EXCEPT !.balance = Add(@, obj.stake_amount),
                !.trades[i].exited = TRUE,
                !.last_action = "exit_trade"]

\* the three statements every close ends with
close_trade(obj, i, pv) ==
    [obj EXCEPT !.balance = Add(@, pv),
                !.trades[i].exited = TRUE,
                !.last_action = "exit_trade"]

exit_trade(obj, current_row, i, is_sl_tp, force_exit) ==
    LET trade == obj.trades[i] IN
    IF already_exited(trade) THEN obj
    ELSE
    LET pv == position_value(trade, current_row) IN
    IF Lt(pv, obj.stake_amount)
    THEN IF ~is_sl_tp
         THEN IF force_exit
              THEN close_trade(forced_loss(obj, pv), i, pv)
              ELSE obj
         ELSE IF sl_hit(obj, pv)
              THEN close_trade(stop_loss_exit(obj, pv), i, pv)
              ELSE obj
    ELSE IF Gt(pv, obj.stake_amount)
    THEN IF ~is_sl_tp
         THEN IF force_exit
              THEN close_trade(forced_win(obj, pv), i, pv)
              ELSE obj
         ELSE IF tp_hit(obj, pv)
              THEN close_trade(take_profit_exit(obj, pv), i, pv)
              ELSE obj
    ELSE IF ~force_exit
         THEN obj
         ELSE close_trade(forced_breakeven(obj), i, pv)

-----------------------------------------------------------------------------
(* _exit_trades *)

RECURSIVE open_from(_, _)
open_from(trades, i) ==
    IF i > Len(trades) THEN <<>>
    ELSE IF ~trades[i].exited THEN <<i>> \o open_from(trades, i + 1)
    ELSE open_from(trades, i + 1)

trades_to_exit(obj) == open_from(obj.trades, 1)

RECURSIVE exit_each(_, _, _, _, _)
exit_each(obj, current_row, todo, is_sl_tp, force_exit) ==
    IF todo = <<>> THEN obj
    ELSE exit_each(exit_trade(obj, current_row, Head(todo), is_sl_tp, force_exit),
                   current_row, Tail(todo), is_sl_tp, force_exit)

exit_trades(obj, current_row, is_sl_tp, force_exit) ==
    exit_each(obj, current_row, trades_to_exit(obj), is_sl_tp, force_exit)

-----------------------------------------------------------------------------
(* _calculate_metrics *)

divides_by_zero(obj) == obj.total_trades = 0 \/ Len(obj.losses) = 0

calculate_metrics(obj) ==
    LET no_of_wins == Len(obj.wins)
        no_of_loss == Len(obj.losses)
    IN  [ wins         |-> no_of_wins,
          losses       |-> no_of_loss,
          win_amount   |-> Sum(obj.wins),
          loss_amount  |-> Sum(obj.losses),
          sl_hits      |-> obj.sl_hits,
          tp_hits      |-> obj.tp_hits,
          force_exits  |-> obj.force_exits,
          win_pct      |-> Mul(Div(Rat(no_of_wins), Rat(obj.total_trades)), Rat(100)),
          loss_pct     |-> Mul(Div(Rat(no_of_loss), Rat(obj.total_trades)), Rat(100)),
          wl_ratio     |-> Div(Rat(no_of_wins), Rat(no_of_loss)),
          total_trades |-> obj.total_trades,
          final_balance |-> obj.balance ]

-----------------------------------------------------------------------------
(* backtest *)

\* mutant: the test of last_action is lost
any_last_action(obj) == TRUE

\* mutant: an entry is allowed only before any action was recorded
no_last_action(obj) == obj.last_action = "None"

not_last_enter(obj) == obj.last_action # "enter_long"

\* the if / elif on row["signal"]
on_signal(obj, r) ==
    IF r.signal = "enter_long"
    THEN IF not_last_enter(obj) THEN enter_long(obj, r) ELSE obj
    ELSE IF r.signal = "exit_long"
    THEN exit_trades(obj, r, FALSE, TRUE)
    ELSE obj

\* self._exit_trades(row, True); self.last_row = row
sl_tp_sweep(obj, r) == [exit_trades(obj, r, TRUE, FALSE) EXCEPT !.last_row = r]

\* mutant: the final exit is a stop-loss / take-profit sweep, not a forced exit
liquidate_sl_tp(obj) == exit_trades(obj, obj.last_row, TRUE, FALSE)

\* self._exit_trades(self.last_row, force_exit=True)
liquidate(obj) == exit_trades(obj, obj.last_row, FALSE, TRUE)

\* history: the trades that obj -> new closed at exactly stake_amount
closed_at_breakeven(obj, new, r) ==
    Cardinality({ i \in 1..Len(obj.trades) :
                    /\ ~obj.trades[i].exited
                    /\ new.trades[i].exited
                    /\ position_value(obj.trades[i], r) = obj.stake_amount })

\* mutant: the iterator yields the first row again and again
iterrows_restarts(frame, i) ==
    IF frame.streamed
    THEN IF i < MaxBars THEN Rows ELSE {}
    ELSE IF i < Len(frame.rows) THEN {frame.rows[1]} ELSE {}

\* data_frame.iterrows(): the rows that can come after the first i
iterrows(frame, i) ==
    IF frame.streamed
    THEN IF i < MaxBars THEN Rows ELSE {}
    ELSE IF i < Len(frame.rows) THEN {frame.rows[i + 1]} ELSE {}

\* the iterator can stop after i rows
exhausted(frame, i) == frame.streamed \/ i = Len(frame.rows)

InitWith(frame) ==
    /\ initial_balance \in StartingBalances
    /\ \E strategy \in Strategies : self = init(strategy, initial_balance)
    /\ data_frame = frame
    /\ pc = "for"
    /\ row = None
    /\ index = 0
    /\ metrics = NoMetrics
    /\ breakeven_exits = 0
    /\ entered = FALSE

Init == InitWith(Streamed)

FrameInit == \E frame \in Frames : InitWith(frame)

\* the iterator yields a row, and the signal is handled
Signal ==
    /\ pc = "for"
    /\ \E r \in iterrows(data_frame, index) :
          LET new == on_signal(self, r) IN
          /\ self' = new
          /\ row' = r
          /\ breakeven_exits' = breakeven_exits + closed_at_breakeven(self, new, r)
          /\ entered' = (Len(new.trades) > Len(self.trades))
    /\ index' = index + 1
    /\ pc' = "sweep"
    /\ UNCHANGED <<metrics, data_frame, initial_balance>>

\* the stop-loss / take-profit sweep that ends the iteration
Sweep ==
    /\ pc = "sweep"
    /\ LET new == sl_tp_sweep(self, row) IN
          /\ self' = new
          /\ breakeven_exits' = breakeven_exits + closed_at_breakeven(self, new, row)
    /\ pc' = "for"
    /\ entered' = FALSE
    /\ UNCHANGED <<row, index, metrics, data_frame, initial_balance>>

\* the iterator is exhausted: the open trades are liquidated
Liquidate ==
    /\ pc = "for"
    /\ exhausted(data_frame, index)
    /\ LET new == liquidate(self) IN
          /\ self' = new
          /\ breakeven_exits' =
                breakeven_exits
                + (IF self.last_row = None THEN 0
                   ELSE closed_at_breakeven(self, new, self.last_row))
    /\ pc' = "metrics"
    /\ UNCHANGED <<row, index, metrics, data_frame, initial_balance, entered>>

\* _print_backtest_results: _calculate_metrics, or the ZeroDivisionError it raises
PrintResults ==
    /\ pc = "metrics"
    /\ IF divides_by_zero(self)
       THEN /\ pc' = "ZeroDivisionError"
            /\ UNCHANGED metrics
       ELSE /\ pc' = "done"
            /\ metrics' = calculate_metrics(self)
    /\ UNCHANGED <<self, row, index, data_frame, initial_balance,
                   breakeven_exits, entered>>

Next == Signal \/ Sweep \/ Liquidate \/ PrintResults

Spec == Init /\ [][Next]_vars

\* the runs on the data frames given whole
FrameSpec == FrameInit /\ [][Next]_vars

-----------------------------------------------------------------------------
(* Properties *)

OpenTrades(obj) == { i \in 1..Len(obj.trades) : ~obj.trades[i].exited }

ClosedTrades(obj) == { i \in 1..Len(obj.trades) : obj.trades[i].exited }

\* the iterator has just yielded row' and its signal has been handled
SignalStep == pc = "for" /\ pc' = "sweep"

\* the run is past the terminal liquidation
Liquidated == pc \in {"metrics", "done", "ZeroDivisionError"}

\* C1: a position is opened only when balance >= stake_amount at that moment,
\* and the balance is never negative, during the loop or after liquidation.
C1_EntryOnlyWithStake ==
    /\ [](Ge(self.balance, Rat(0)))
    /\ [][Len(self'.trades) > Len(self.trades)
             => /\ Ge(self.balance, self.stake_amount)
                /\ self'.balance = Sub(self.balance, self.stake_amount)]_vars

\* an entry that spent the whole balance
C1_Witness ==
    /\ pc = "sweep"
    /\ row.signal = "enter_long"
    /\ OpenTrades(self) # {}
    /\ self.trades[Len(self.trades)].price = row.close
    /\ self.balance = Rat(0)

\* C2: at most one position of the ledger is open, in every reachable state.
C2_AtMostOneOpen == Cardinality(OpenTrades(self)) <= 1

\* a second enter_long bar in a row, with the stake still in the balance
C2_Witness ==
    /\ pc = "sweep"
    /\ row.signal = "enter_long"
    /\ self.last_row # None
    /\ self.last_row.signal = "enter_long"
    /\ Ge(self.balance, self.stake_amount)
    /\ Cardinality(OpenTrades(self)) = 1

\* C3: once the last bar is processed and the final forced exit executed, no
\* position is open, whatever its profit or loss.
C3_TerminalLiquidation == Liquidated => OpenTrades(self) = {}

\* a position opened on the last bar and liquidated at its own entry price
C3_Witness ==
    /\ pc = "metrics"
    /\ self.last_row # None
    /\ self.last_row.signal = "enter_long"
    /\ self.total_trades = 1
    /\ self.force_exits = 1
    /\ breakeven_exits = 1

\* C4: the exited flag only goes false -> true, and _exit_trade on an exited
\* position changes nothing, whatever the flags and the close price.
C4_SingleClose ==
    /\ [](\A i \in ClosedTrades(self) : \A r \in Rows : \A is_sl_tp, force_exit \in BOOLEAN :
            exit_trade(self, r, i, is_sl_tp, force_exit) = self)
    /\ [][\A i \in ClosedTrades(self) :
             /\ i <= Len(self'.trades)
             /\ self'.trades[i] = self.trades[i]]_vars

\* a closed position followed by a later entry
C4_Witness ==
    /\ ClosedTrades(self) # {}
    /\ OpenTrades(self) # {}

\* the stop-loss / take-profit sweep of the current row
SweepStep == pc = "sweep" /\ pc' = "for"

\* what a sweep that closes nothing leaves behind
SweepNoOp == self' = [self EXCEPT !.last_row = row]

\* C5: in the sweep, an open position with position_value < stake_amount is
\* closed iff (stake_amount - position_value) / stake_amount >= stop_loss
\* (equality closes); closing adds one to sl_hits, appends the loss to losses
\* and adds position_value to balance; otherwise nothing changes.
C5_StopLossInclusive ==
    [][SweepStep =>
        \A i \in OpenTrades(self) :
            LET pv == Mul(self.trades[i].amount, row.close)
                loss == Sub(self.stake_amount, pv)
            IN  Lt(pv, self.stake_amount) =>
                  IF Ge(loss, Mul(self.stop_loss, self.stake_amount))
                  THEN /\ self'.trades[i].exited
                       /\ self'.sl_hits = self.sl_hits + 1
                       /\ self'.losses = Append(self.losses, loss)
                       /\ self'.balance = Add(self.balance, pv)
                       /\ self'.wins = self.wins
                       /\ self'.tp_hits = self.tp_hits
                       /\ self'.force_exits = self.force_exits
                  ELSE /\ ~self'.trades[i].exited
                       /\ SweepNoOp]_vars

\* the only close of the run is a stop-loss hit at exactly the threshold
C5_Witness ==
    /\ pc = "for"
    /\ self.sl_hits = 1
    /\ self.force_exits = 0
    /\ Len(self.losses) = 1
    /\ self.losses[1] = Mul(self.stop_loss, self.stake_amount)
    /\ OpenTrades(self) = {}

\* C6: in the sweep, an open position with position_value > stake_amount is
\* closed iff (position_value - stake_amount) / stake_amount >= take_profit
\* (equality closes); closing adds one to tp_hits, appends the gain to wins
\* and adds position_value to balance; otherwise nothing changes.
C6_TakeProfitInclusive ==
    [][SweepStep =>
        \A i \in OpenTrades(self) :
            LET pv == Mul(self.trades[i].amount, row.close)
                gain == Sub(pv, self.stake_amount)
            IN  Gt(pv, self.stake_amount) =>
                  IF Ge(gain, Mul(self.take_profit, self.stake_amount))
                  THEN /\ self'.trades[i].exited
                       /\ self'.tp_hits = self.tp_hits + 1
                       /\ self'.wins = Append(self.wins, gain)
                       /\ self'.balance = Add(self.balance, pv)
                       /\ self'.losses = self.losses
                       /\ self'.sl_hits = self.sl_hits
                       /\ self'.force_exits = self.force_exits
                  ELSE /\ ~self'.trades[i].exited
                       /\ SweepNoOp]_vars

\* the only close of the run is a take-profit hit at exactly the threshold
C6_Witness ==
    /\ pc = "for"
    /\ self.tp_hits = 1
    /\ self.force_exits = 0
    /\ Len(self.wins) = 1
    /\ self.wins[1] = Mul(self.take_profit, self.stake_amount)
    /\ OpenTrades(self) = {}

RECURSIVE ValueOf(_, _, _)
\* the summed position_value at close price c of the trades in set S
ValueOf(obj, S, c) ==
    IF S = {} THEN Rat(0)
    ELSE LET i == CHOOSE j \in S : TRUE
         IN  Add(Mul(obj.trades[i].amount, c), ValueOf(obj, S \ {i}, c))

\* C7: on an exit_long bar every position open at the start of the bar is
\* closed at the bar's close price whatever its profit or loss, force_exits
\* grows by the number of positions closed, and the sweep of the same bar is a
\* no-op: sl_hits and tp_hits are unchanged and no position is left open.
C7_ExitLongClosesAll ==
    [][/\ (SignalStep /\ row'.signal = "exit_long") =>
             /\ OpenTrades(self') = {}
             /\ self'.force_exits = self.force_exits + Cardinality(OpenTrades(self))
             /\ self'.balance =
                    Add(self.balance, ValueOf(self, OpenTrades(self), row'.close))
             /\ self'.sl_hits = self.sl_hits
             /\ self'.tp_hits = self.tp_hits
       /\ (SweepStep /\ row.signal = "exit_long") =>
             /\ SweepNoOp
             /\ OpenTrades(self') = {}]_vars

\* an exit_long bar has closed a losing position below the stop-loss threshold
C7_Witness ==
    /\ pc = "for"
    /\ self.last_row # None
    /\ self.last_row.signal = "exit_long"
    /\ self.force_exits = 1
    /\ self.sl_hits = 0
    /\ Len(self.losses) = 1
    /\ Lt(self.losses[1], Mul(self.stop_loss, self.stake_amount))

\* C8: len(wins) + len(losses) + (forced exits at exactly break-even) equals
\* the number of closed positions, in every reachable state.
C8_WinLossAccounting ==
    Len(self.wins) + Len(self.losses) + breakeven_exits
        = Cardinality(ClosedTrades(self))

\* a win, a loss and a break-even forced exit in one run
C8_Witness ==
    /\ Len(self.wins) >= 1
    /\ Len(self.losses) >= 1
    /\ breakeven_exits >= 1

\* C9: with total_trades = 0 or len(losses) = 0 the metrics step completes and
\* produces the metrics, the undefined ones as a sentinel; the run does not
\* end in a division by zero.
C9_DegenerateStatsCompleted ==
    (pc \in {"done", "ZeroDivisionError"} /\ divides_by_zero(self))
        => (pc = "done" /\ metrics # NoMetrics)

\* C10: an enter_long bar opens a position iff last_action # enter_long and
\* balance >= stake_amount: of consecutive enter_long bars only the first
\* opens one, and after a close the next enter_long bar with the stake in the
\* balance opens one.
C10_EntryGating ==
    [][(SignalStep /\ row'.signal = "enter_long") =>
          IF self.last_action # "enter_long" /\ Ge(self.balance, self.stake_amount)
          THEN /\ Len(self'.trades) = Len(self.trades) + 1
               /\ ~self'.trades[Len(self'.trades)].exited
               /\ self'.last_action = "enter_long"
          ELSE self' = self]_vars

\* a re-entry right after a close
C10_Witness ==
    /\ pc = "sweep"
    /\ row.signal = "enter_long"
    /\ Len(self.trades) = 2
    /\ self.trades[1].exited
    /\ ~self.trades[2].exited
    /\ self.trades[2].price = row.close

\* C11: an entry attempted with balance < stake_amount is a silent no-op: no
\* error state, no position appended, balance, total_trades, last_action,
\* wins, losses and all counters unchanged, and the loop goes on to the sweep.
C11_InsufficientCapitalNoOp ==
    [][(/\ SignalStep
        /\ row'.signal = "enter_long"
        /\ self.last_action # "enter_long"
        /\ Lt(self.balance, self.stake_amount))
          => /\ self' = self
             /\ index' = index + 1
             /\ metrics' = metrics]_vars

\* an entry was attempted after a loss left less than the stake
C11_Witness ==
    /\ pc = "sweep"
    /\ row.signal = "enter_long"
    /\ self.last_action = "exit_trade"
    /\ Lt(self.balance, self.stake_amount)
    /\ ~entered

\* the terminal liquidation
LiquidateStep == pc = "for" /\ pc' = "metrics"

\* trade i is closed by a forced exit at position_value pv = stake_amount
ForcedAtBreakEven(i, pv) ==
    /\ self'.trades[i].exited
    /\ self'.force_exits = self.force_exits + 1
    /\ self'.balance = Add(self.balance, pv)
    /\ self'.wins = self.wins
    /\ self'.losses = self.losses
    /\ self'.sl_hits = self.sl_hits
    /\ self'.tp_hits = self.tp_hits

\* C13: an open position whose position_value equals stake_amount exactly is
\* left open by the sweep, which changes nothing; a forced exit (exit_long bar
\* or terminal liquidation) closes it, adds one to force_exits, adds
\* position_value to balance and appends nothing to wins or losses.
C13_BreakEven ==
    [][/\ SweepStep =>
            \A i \in OpenTrades(self) :
                Mul(self.trades[i].amount, row.close) = self.stake_amount
                    => (~self'.trades[i].exited /\ SweepNoOp)
       /\ (SignalStep /\ row'.signal = "exit_long") =>
            \A i \in OpenTrades(self) :
                LET pv == Mul(self.trades[i].amount, row'.close)
                IN  pv = self.stake_amount => ForcedAtBreakEven(i, pv)
       /\ LiquidateStep =>
            \A i \in OpenTrades(self) :
                LET pv == Mul(self.trades[i].amount, self.last_row.close)
                IN  pv = self.stake_amount => ForcedAtBreakEven(i, pv)]_vars

\* an exit_long bar closed the only position at its entry price, after the
\* sweep of an earlier bar had left it open at that price
C13_Witness ==
    /\ pc = "for"
    /\ index >= 3
    /\ self.last_row # None
    /\ self.last_row.signal = "exit_long"
    /\ self.total_trades = 1
    /\ self.trades[1].price = self.last_row.close
    /\ self.force_exits = 1
    /\ breakeven_exits = 1
    /\ self.wins = <<>>
    /\ self.losses = <<>>

\* C14: the terminal liquidation closes each position still open at the last
\* bar's close price, adds one to force_exits for it and nothing to sl_hits or
\* tp_hits, adds quantity * last_close to balance, and records the gain in
\* wins or the loss in losses, also below the take-profit / stop-loss threshold.
C14_LiquidationAccounting ==
    [][LiquidateStep =>
        /\ self'.force_exits = self.force_exits + Cardinality(OpenTrades(self))
        /\ self'.sl_hits = self.sl_hits
        /\ self'.tp_hits = self.tp_hits
        /\ \A i \in OpenTrades(self) :
             LET pv == Mul(self.trades[i].amount, self.last_row.close) IN
             /\ self'.trades[i].exited
             /\ self'.balance = Add(self.balance, pv)
             /\ Gt(pv, self.stake_amount) =>
                   /\ self'.wins = Append(self.wins, Sub(pv, self.stake_amount))
                   /\ self'.losses = self.losses
             /\ Lt(pv, self.stake_amount) =>
                   /\ self'.losses = Append(self.losses, Sub(self.stake_amount, pv))
                   /\ self'.wins = self.wins]_vars

\* the liquidation closed the only position at a gain below take_profit
C14_Witness ==
    /\ pc = "metrics"
    /\ index = 2
    /\ self.last_row.signal = "none"
    /\ self.total_trades = 1
    /\ self.force_exits = 1
    /\ self.tp_hits = 0
    /\ Len(self.wins) = 1
    /\ Lt(self.wins[1], Mul(self.take_profit, self.stake_amount))

\* the scenario's data frame: (close=10, enter_long), (close=9, no signal)
ScenarioFrame ==
    << [close |-> Rat(10), signal |-> "enter_long"],
       [close |-> Rat(9), signal |-> "none"] >>

\* stake_amount=100, stop_loss=0.10, take_profit=0.20 on the scenario's frame
InScenario ==
    /\ ~data_frame.streamed
    /\ data_frame.rows = ScenarioFrame
    /\ self.stake_amount = Rat(100)
    /\ self.stop_loss = Norm(1, 10)
    /\ self.take_profit = Norm(1, 5)

\* the course and the result of the scenario, for the runs that satisfy cond
ScenarioRun(cond) ==
    (InScenario /\ cond) =>
        /\ index = 1 =>
              self.trades = << [price |-> Rat(10), amount |-> Rat(10), exited |-> FALSE] >>
        /\ (index = 2 /\ pc = "sweep") =>
              (Len(self.trades) = 1 /\ ~self.trades[1].exited)
        /\ (index = 2 /\ pc = "for") =>
              (Len(self.trades) = 1 /\ self.trades[1].exited /\ self.sl_hits = 1)
        /\ pc = "metrics" =>
              (self.force_exits = 0 /\ self.sl_hits = 1 /\ Len(self.trades) = 1)
        /\ pc \in {"done", "ZeroDivisionError"} =>
              /\ pc = "done"
              /\ metrics.wins = 0
              /\ metrics.losses = 1
              /\ metrics.loss_amount = Rat(10)
              /\ metrics.sl_hits = 1
              /\ metrics.tp_hits = 0
              /\ metrics.force_exits = 0
              /\ metrics.total_trades = 1
              /\ metrics.final_balance = Rat(initial_balance - 100 + 90)

\* C15 as stated, for every starting_balance: the scenario opens one position
\* of quantity 10 on bar 1, closes it by stop-loss on bar 2, liquidates
\* nothing, and ends with wins=0, losses=1, loss_amount=10, sl_hits=1,
\* tp_hits=0, force_exits=0, total_trades=1, final_balance=starting_balance-10.
C15_ScenarioAnyBalance == ScenarioRun(TRUE)

\* C15 (amended): the same, for starting_balance >= stake_amount = 100.
C15_Scenario == ScenarioRun(initial_balance >= 100)

\* the scenario ran to its metrics with the stake in the starting balance
C15_Witness ==
    /\ InScenario
    /\ initial_balance >= 100
    /\ pc = "done"
    /\ metrics.losses = 1

\* C16: sl_hits + tp_hits + force_exits equals the number of closed positions
\* in every reachable state: each close is counted in exactly one counter.
C16_NoDoubleCounting ==
    self.sl_hits + self.tp_hits + self.force_exits
        = Cardinality(ClosedTrades(self))

\* one run with a stop-loss hit, a take-profit hit and a forced exit
C16_Witness ==
    /\ self.sl_hits >= 1
    /\ self.tp_hits >= 1
    /\ self.force_exits >= 1

\* C17: in every reachable state, balance = starting_balance
\* - stake_amount * (number of open positions) + sum(wins) - sum(losses), in
\* exact arithmetic; so the final balance reported after the liquidation is
\* starting_balance + sum(wins) - sum(losses).
C17_BalanceReconciles ==
    /\ self.balance =
          Sub(Add(Sub(Rat(initial_balance),
                      Mul(self.stake_amount, Rat(Cardinality(OpenTrades(self))))),
                  Sum(self.wins)),
              Sum(self.losses))
    /\ pc = "done" =>
          metrics.final_balance =
              Sub(Add(Rat(initial_balance), metrics.win_amount), metrics.loss_amount)

\* a win and a loss are behind, and a third position is open
C17_Witness ==
    /\ Len(self.wins) >= 1
    /\ Len(self.losses) >= 1
    /\ OpenTrades(self) # {}

\* some open trade of self is closed in self'
SomeClose == \E i \in OpenTrades(self) : self'.trades[i].exited

\* C18: while a position is open last_action is enter_long; last_action
\* changes only on an accepted entry (to enter_long) or on a close (to
\* exit_trade); and the sweep on the bar of an accepted entry does not close
\* the position just opened, so the entry bar ends with it open.
C18_OpenMeansEntered ==
    /\ [](OpenTrades(self) # {} => self.last_action = "enter_long")
    /\ [][/\ Len(self'.trades) > Len(self.trades) => self'.last_action = "enter_long"
          /\ SomeClose => self'.last_action = "exit_trade"
          /\ self'.last_action # self.last_action =>
                (Len(self'.trades) > Len(self.trades) \/ SomeClose)
          /\ (SweepStep /\ entered) =>
                /\ ~self'.trades[Len(self'.trades)].exited
                /\ SweepNoOp]_vars

\* a bar re-entered after a close has ended with the new position open
C18_Witness ==
    /\ pc = "for"
    /\ self.last_row # None
    /\ self.last_row.signal = "enter_long"
    /\ Len(self.trades) = 2
    /\ self.trades[1].exited
    /\ ~self.trades[2].exited
    /\ self.trades[2].price = self.last_row.close
    /\ self.last_action = "enter_long"

\* backtest() has returned or raised
Terminated == pc \in {"done", "ZeroDivisionError"}

\* the steps backtest() has still to take: two for each row left, the
\* liquidation and the metrics
StepsLeft ==
    CASE pc = "for" -> 2 * (Len(data_frame.rows) - index) + 2
      [] pc = "sweep" -> 2 * (Len(data_frame.rows) - index) + 3
      [] pc = "metrics" -> 1
      [] OTHER -> 0

\* a step of backtest() can be taken: the loop has a next row or is over, the
\* sweep has no condition, the metrics step can be taken
CanStep ==
    \/ pc = "for" /\ (ENABLED Signal \/ ENABLED Liquidate)
    \/ pc = "sweep"
    \/ pc = "metrics" /\ ENABLED PrintResults

\* C19: the bars of a finite data frame are processed once each and in input
\* order, the signal handling and then the sweep of bar i before anything of
\* bar i+1; then the terminal liquidation runs once and the run terminates
\* (a step is always possible until then, and every step leaves fewer steps
\* to take); no bar is skipped or revisited and no position leaves the ledger.
C19_EachBarOnceInOrder ==
    /\ [](Terminated \/ CanStep)
    /\ [][/\ data_frame' = data_frame
          /\ StepsLeft' < StepsLeft
          /\ pc = "for" => (SignalStep \/ LiquidateStep)
          /\ pc = "sweep" => SweepStep
          /\ pc = "metrics" => Terminated'
          /\ ~Terminated
          /\ SignalStep =>
                /\ index < Len(data_frame.rows)
                /\ index' = index + 1
                /\ row' = data_frame.rows[index + 1]
          /\ SweepStep =>
                /\ index' = index
                /\ row' = row
                /\ self'.last_row = data_frame.rows[index]
          /\ LiquidateStep =>
                /\ index = Len(data_frame.rows)
                /\ index' = index
          /\ Len(self'.trades) >= Len(self.trades)
          /\ \A i \in 1..Len(self.trades) :
                /\ self'.trades[i].price = self.trades[i].price
                /\ self'.trades[i].amount = self.trades[i].amount]_vars

\* a frame of two different bars has been run to its metrics
C19_Witness ==
    /\ pc = "done"
    /\ ~data_frame.streamed
    /\ Len(data_frame.rows) = 2
    /\ data_frame.rows[1] # data_frame.rows[2]
    /\ index = 2
    /\ self.last_row = data_frame.rows[2]

====
